---- MODULE Spec2Model ----
(***************************************************************************)
(* Model of the edge functions of the CDN mirror:                          *)
(*   src/edge-functions/api/sync.js  (/api/sync: probe, fetch, upload and  *)
(*                                    the COS V5 signer)                   *)
(*   src/edge-functions/api/num.js   (/api/num: TC3 signed metrics query)  *)
(*                                                                         *)
(* Strings are sequences of tokens.  A token is a TLA+ string that stands  *)
(* for one character ("/", " ", "H", ...) or for a run of unreserved       *)
(* characters that no operation of the code looks into ("jquery").         *)
(* JavaScript's undefined and null are the reserved one-token sequences    *)
(* Undefined and Null.                                                     *)
(***************************************************************************)
EXTENDS Integers, Sequences, FiniteSets, TLC

VARIABLES
    env,        \* context.env: the deployment's configuration
    store,      \* the destination bucket: the set of object keys it holds
    pc,         \* pc[r]: where synchronization run r stands
    req,        \* req[r]: the request run r serves: its method and parsed body
    calls,      \* calls[r]: the network calls run r has issued, in order
    source,     \* source[r]: the source response run r holds
    result,     \* result[r]: the Response run r returned
    follows,    \* follows[r]: the runs that had returned "uploaded" when r began
    npc,        \* where the metrics handler stands
    nreq,       \* the metrics request: method, act, and the two clock readings
    nlog,       \* what the metrics handler computed and issued, in order
    npayload,   \* the metrics payload as serialized
    nauth,      \* the TC3 authorization header
    nanswer,    \* what the metrics call came to
    nresult,    \* the Response the metrics handler returned
    spc,        \* the signer applied to two inputs: "input", "edited" or "signed"
    in1,        \* the first input of the signer
    in2,        \* the second input: the first, or the first with one change
    out1,       \* buildCOSAuth of in1
    out2        \* buildCOSAuth of in2

syncVars == <<store, pc, req, calls, source, result, follows>>

numVars == <<npc, nreq, nlog, npayload, nauth, nanswer, nresult>>

signVars == <<spc, in1, in2, out1, out2>>

vars == <<env, syncVars, numVars, signVars>>

-----------------------------------------------------------------------------
(* Values and strings *)

Undefined == <<"<undefined>">>
Null == <<"<null>">>

\* JavaScript truthiness of a string-or-missing value: !v
Falsy(v) == v = Undefined \/ v = Null \/ v = <<>>

\* a || b
OrElse(a, b) == IF Falsy(a) THEN b ELSE a

\* s.replace(/\/$/, '')
StripTrailingSlash(s) ==
    IF Len(s) > 0 /\ s[Len(s)] = "/" THEN SubSeq(s, 1, Len(s) - 1) ELSE s

\* s.replace(/^\//, '')
StripLeadingSlash(s) ==
    IF Len(s) > 0 /\ s[1] = "/" THEN SubSeq(s, 2, Len(s)) ELSE s

\* String.prototype.toLowerCase, token by token
LowerTok(c) ==
    CASE c = "H" -> "h"
      [] c = "C" -> "c"
      [] c = "T" -> "t"
      [] c = "X" -> "x"
      [] c = "A" -> "a"
      [] c = "O" -> "o"
      [] c = "S" -> "s"
      [] c = ".JS" -> ".js"
      [] c = ".CSS" -> ".css"
      [] OTHER -> c

toLowerCase(s) == [i \in 1..Len(s) |-> LowerTok(s[i])]

\* encodeURIComponent, token by token: reserved characters are escaped,
\* unreserved ones (letters, digits, - _ . ! ~ * ' ( )) are kept
EncodeTok(c) ==
    CASE c = " " -> "%20"
      [] c = "/" -> "%2F"
      [] c = ";" -> "%3B"
      [] c = "=" -> "%3D"
      [] c = "&" -> "%26"
      [] c = "%" -> "%25"
      [] c = "@" -> "%40"
      [] OTHER -> c

encodeURIComponent(s) == [i \in 1..Len(s) |-> EncodeTok(s[i])]

\* parts.join(sep), for a sequence of strings
RECURSIVE Join(_, _)
Join(parts, sep) ==
    IF Len(parts) = 0 THEN <<>>
    ELSE IF Len(parts) = 1 THEN parts[1]
    ELSE parts[1] \o sep \o Join(Tail(parts), sep)

\* s.endsWith(suffix)
endsWith(s, suffix) ==
    /\ Len(s) >= Len(suffix)
    /\ SubSeq(s, Len(s) - Len(suffix) + 1, Len(s)) = suffix

-----------------------------------------------------------------------------
(* sync.js: URLs *)

cdnJsBase == <<"https://cdnjs.cloudflare.com", "/", "ajax", "/", "libs">>

\* The key's last token is its extension, dot included
guessContentTypeByKey(key) ==
    LET lower == toLowerCase(key)
        js == <<"application", "/", "javascript", ";", " ", "charset", "=", "utf-8">>
    IN CASE endsWith(lower, <<".js">>) -> js
         [] endsWith(lower, <<".mjs">>) -> js
         [] endsWith(lower, <<".cjs">>) -> js
         [] endsWith(lower, <<".css">>) -> <<"text", "/", "css", ";", " ", "charset", "=", "utf-8">>
         [] endsWith(lower, <<".json">>) -> <<"application", "/", "json", ";", " ", "charset", "=", "utf-8">>
         [] endsWith(lower, <<".map">>) -> <<"application", "/", "octet-stream">>
         [] endsWith(lower, <<".svg">>) -> <<"image", "/", "svg+xml">>
         [] endsWith(lower, <<".png">>) -> <<"image", "/", "png">>
         [] endsWith(lower, <<".jpg">>) \/ endsWith(lower, <<".jpeg">>) -> <<"image", "/", "jpeg">>
         [] endsWith(lower, <<".gif">>) -> <<"image", "/", "gif">>
         [] endsWith(lower, <<".webp">>) -> <<"image", "/", "webp">>
         [] endsWith(lower, <<".woff">>) -> <<"font", "/", "woff">>
         [] endsWith(lower, <<".woff2">>) -> <<"font", "/", "woff2">>
         [] OTHER -> <<"application", "/", "octet-stream">>

buildSelfCdnBase(e) ==
    LET base == StripTrailingSlash(OrElse(e.COS_CUSTOM_DOMAIN, <<>>))
        folder == IF ~Falsy(e.COS_LIB_FOLDER)
                  THEN <<"/">> \o StripTrailingSlash(StripLeadingSlash(e.COS_LIB_FOLDER))
                  ELSE <<>>
    IN base \o folder

selfCdnURL(e, name, version, key) ==
    buildSelfCdnBase(e) \o <<"/">> \o name \o <<"/">> \o version \o <<"/">> \o key

\* const uploadKey = `${name}/${version}/${key}`
uploadKeyOf(c) == c.name \o <<"/">> \o c.version \o <<"/">> \o c.key

\* const cosHost = `${COS_BUCKET_NAME}.cos.${COS_REGION}.myqcloud.com`
cosHostOf(e) == e.COS_BUCKET_NAME \o <<".cos.">> \o e.COS_REGION \o <<".myqcloud.com">>

\* const sourceUrl = `${cdnJsBase}/${encodeURIComponent(name)}/${encodeURIComponent(version)}/${key}`
sourceUrlOf(c) ==
    cdnJsBase \o <<"/">> \o encodeURIComponent(c.name) \o <<"/">>
              \o encodeURIComponent(c.version) \o <<"/">> \o c.key

\* The object a URL of the destination names: both the custom domain and the
\* bucket host serve the bucket from its root, so the object key is the URL's
\* path without its leading slash.  The scheme is one token and the
\* authority holds no "/" token, so the path starts at the first "/".
RECURSIVE ObjectKeyOfURL(_)
ObjectKeyOfURL(url) ==
    IF Len(url) = 0 THEN <<>>
    ELSE IF url[1] = "/" THEN Tail(url)
    ELSE ObjectKeyOfURL(Tail(url))

-----------------------------------------------------------------------------
(* sync.js: the COS V5 signer *)

\* The digests.  SHA-1 and HMAC-SHA1 are modelled as free constructors: the
\* digest of an input is a term holding the input, so two digests are equal
\* exactly when their inputs are (no collisions).
sha1Hex(input) == <<"sha1", input>>

hmacSha1Hex(key, message) == <<"hmac-sha1", key, message>>

\* UTF-16 code unit of a one-character token (Array.prototype.sort compares
\* strings by code units)
CodeOf(c) ==
    CASE c = "-" -> 45
      [] c = "A" -> 65 [] c = "C" -> 67 [] c = "H" -> 72 [] c = "O" -> 79
      [] c = "S" -> 83 [] c = "T" -> 84 [] c = "X" -> 88
      [] c = "a" -> 97 [] c = "c" -> 99 [] c = "e" -> 101 [] c = "h" -> 104
      [] c = "n" -> 110 [] c = "o" -> 111 [] c = "p" -> 112 [] c = "s" -> 115
      [] c = "t" -> 116 [] c = "x" -> 120 [] c = "y" -> 121
      [] OTHER -> 0

\* a < b in the order of Array.prototype.sort() without a comparator
RECURSIVE StrLess(_, _)
StrLess(a, b) ==
    IF Len(b) = 0 THEN FALSE
    ELSE IF Len(a) = 0 THEN TRUE
    ELSE IF CodeOf(a[1]) # CodeOf(b[1]) THEN CodeOf(a[1]) < CodeOf(b[1])
    ELSE StrLess(Tail(a), Tail(b))

RECURSIVE InsertSorted(_, _)
InsertSorted(k, sorted) ==
    IF Len(sorted) = 0 THEN <<k>>
    ELSE IF StrLess(k, sorted[1]) THEN <<k>> \o sorted
    ELSE <<sorted[1]>> \o InsertSorted(k, Tail(sorted))

\* keys.sort()
RECURSIVE SortStrings(_)
SortStrings(keys) ==
    IF Len(keys) = 0 THEN <<>>
    ELSE InsertSorted(keys[Len(keys)], SortStrings(SubSeq(keys, 1, Len(keys) - 1)))

\* String.prototype.trim
RECURSIVE TrimLeft(_)
TrimLeft(s) == IF Len(s) > 0 /\ s[1] = " " THEN TrimLeft(Tail(s)) ELSE s

RECURSIVE TrimRight(_)
TrimRight(s) ==
    IF Len(s) > 0 /\ s[Len(s)] = " " THEN TrimRight(SubSeq(s, 1, Len(s) - 1)) ELSE s

trim(s) == TrimRight(TrimLeft(s))

\* Map.prototype.set on a Map kept as the sequence of its <<key, value>>
\* entries in insertion order: an existing key keeps its place
MapSet(map, k, v) ==
    IF \E i \in 1..Len(map) : map[i][1] = k
    THEN [i \in 1..Len(map) |-> IF map[i][1] = k THEN <<k, v>> ELSE map[i]]
    ELSE Append(map, <<k, v>>)

\* Map.prototype.get
MapGet(map, k) ==
    IF \E i \in 1..Len(map) : map[i][1] = k
    THEN map[CHOOSE i \in 1..Len(map) : map[i][1] = k][2]
    ELSE Undefined

MapKeys(map) == [i \in 1..Len(map) |-> map[i][1]]

\* The header names that are signed
IsSignedName(lk) == lk = <<"h", "o", "s", "t">>
                    \/ lk = <<"c", "o", "n", "t", "e", "n", "t", "-", "t", "y", "p", "e">>

\* normalizeHeaders without the host/content-type filter
RECURSIVE normalizeHeaders_All(_)
normalizeHeaders_All(headers) ==
    IF Len(headers) = 0 THEN <<>>
    ELSE LET n == Len(headers)
             map == normalizeHeaders_All(SubSeq(headers, 1, n - 1))
             v == headers[n][2]
         IN IF v = Undefined \/ v = Null THEN map
            ELSE MapSet(map, toLowerCase(headers[n][1]), trim(v))

\* normalizeHeaders without the trim of the value
RECURSIVE normalizeHeaders_NoTrim(_)
normalizeHeaders_NoTrim(headers) ==
    IF Len(headers) = 0 THEN <<>>
    ELSE LET n == Len(headers)
             map == normalizeHeaders_NoTrim(SubSeq(headers, 1, n - 1))
             v == headers[n][2]
             lk == toLowerCase(headers[n][1])
         IN IF v = Undefined \/ v = Null THEN map
            ELSE IF IsSignedName(lk) THEN MapSet(map, lk, v)
            ELSE map

\* headers: the object's entries in Object.entries order, <<name, value>>
RECURSIVE normalizeHeaders(_)
normalizeHeaders(headers) ==
    IF Len(headers) = 0 THEN <<>>
    ELSE LET n == Len(headers)
             map == normalizeHeaders(SubSeq(headers, 1, n - 1))
             k == headers[n][1]
             v == headers[n][2]
             lk == toLowerCase(k)
             lv == trim(v)
         IN IF v = Undefined \/ v = Null THEN map
            ELSE IF IsSignedName(lk) THEN MapSet(map, lk, lv)
            ELSE map

\* const expire = now + 600
SignValidity == 600

\* a: {secretId, secretKey, method, host, pathname, headers, params};
\* now: Math.floor(Date.now() / 1000).  The authorization string
\* q-sign-algorithm=..&q-ak=..&..&q-signature=.. is kept as the record of
\* its parameters.
buildCOSAuth(a, now) ==
    LET expire == now + SignValidity
        signTime == <<ToString(now), ";", ToString(expire)>>
        keyTime == signTime
        signKey == hmacSha1Hex(a.secretKey, keyTime)
        urlParamList == Join(SortStrings([i \in 1..Len(a.params) |-> toLowerCase(a.params[i][1])]), <<";">>)
        headerMap == normalizeHeaders(a.headers)
        headerKeysSorted == SortStrings(MapKeys(headerMap))
        headerList == Join(headerKeysSorted, <<";">>)
        httpString ==
            Join(<< toLowerCase(a.method),
                    a.pathname,
                    <<>>,
                    Join([i \in 1..Len(headerKeysSorted) |->
                            headerKeysSorted[i] \o <<"=">>
                              \o encodeURIComponent(MapGet(headerMap, headerKeysSorted[i]))],
                         <<"&">>) >>,
                 <<"\n">>) \o <<"\n">>
        httpStringSha1 == sha1Hex(httpString)
        stringToSign == <<"sha1", "\n">> \o signTime \o <<"\n", httpStringSha1, "\n">>
        signature == hmacSha1Hex(signKey, stringToSign)
    IN [ qSignAlgorithm |-> "sha1",
         qAk |-> encodeURIComponent(a.secretId),
         qSignTime |-> signTime,
         qKeyTime |-> keyTime,
         qHeaderList |-> headerList,
         qUrlParamList |-> urlParamList,
         qSignature |-> signature ]

-----------------------------------------------------------------------------
(* sync.js: onRequest *)

Runs == {1, 2}

\* The clock readings a signer may see (seconds): a first one and those
\* ClockSteps validity windows later
ClockSteps == 1

Times == { 1700000000 + i * SignValidity : i \in 0..ClockSteps }

Methods == {"POST", "GET", "OPTIONS"}

Str(w) == <<w>>

Coords ==
    { [name |-> Str("jquery"), version |-> Str("3.6.0"), key |-> <<"jquery.min", ".js">>],
      [name |-> Str("vue"), version |-> Str("3.6.0"), key |-> <<"dist", "/", "vue", ".CSS">>] }

\* What request.json() makes of the request body: json is "object" for a
\* parsed object (its name, version and key properties follow, Undefined when
\* absent), "null" for the JSON text null, "invalid" when parsing throws
Body(json, name, version, key) ==
    [json |-> json, name |-> name, version |-> version, key |-> key]

Bodies ==
    { Body("object", c.name, c.version, c.key) : c \in Coords } \cup
    { Body("object", Undefined, Str("3.6.0"), <<"jquery.min", ".js">>),
      Body("object", Str("jquery"), <<>>, <<"jquery.min", ".js">>),
      Body("object", Str("jquery"), Str("3.6.0"), Undefined),
      Body("object", Undefined, Undefined, Undefined),
      Body("null", Undefined, Undefined, Undefined),
      Body("invalid", Undefined, Undefined, Undefined) }

Request(method, body) == [method |-> method, body |-> body]

NoRequest == Request("none", Body("null", Undefined, Undefined, Undefined))

\* const { name, version, key } = body || {}
coordOf(r) == [name |-> req[r].body.name, version |-> req[r].body.version, key |-> req[r].body.key]

\* The Response a run returns.  outcome names the return statement taken:
\*   "preflight" (l.101), "method" (l.112), "config" (l.120), "json" (l.130),
\*   "params" (l.138), "already-mirrored" (l.152), "fetch-failed" (l.165),
\*   "upload-failed" (l.205), "uploaded" (l.211);
\* "uncaught" is no Response: the handler's promise rejected.
NoResult == [outcome |-> "none", status |-> 0, code |-> 0, hash |-> Undefined,
             key |-> Undefined, detail |-> Undefined]

Reply(outcome, status, code) ==
    [outcome |-> outcome, status |-> status, code |-> code, hash |-> Undefined,
     key |-> Undefined, detail |-> Undefined]

Uncaught == Reply("uncaught", 0, 0)

\* The configuration check with the custom domain forgotten
ConfigMissing_NoDomain(e) ==
    \/ Falsy(e.COS_BUCKET_NAME)
    \/ Falsy(e.COS_REGION)
    \/ Falsy(e.COS_SECRET_ID)
    \/ Falsy(e.COS_SECRET_KEY)

\* !COS_BUCKET_NAME || !COS_REGION || !COS_SECRET_ID || !COS_SECRET_KEY || !COS_CUSTOM_DOMAIN
ConfigMissing(e) ==
    \/ Falsy(e.COS_BUCKET_NAME)
    \/ Falsy(e.COS_REGION)
    \/ Falsy(e.COS_SECRET_ID)
    \/ Falsy(e.COS_SECRET_KEY)
    \/ Falsy(e.COS_CUSTOM_DOMAIN)

\* !name || !version || !key, of `body || {}`
ParamsMissing(body) == Falsy(body.name) \/ Falsy(body.version) \/ Falsy(body.key)

\* etag.replace(/"/g, '').split('.')[0] || undefined, of `headers.get('etag') || ''`
RECURSIVE StripQuotes(_)
StripQuotes(s) ==
    IF Len(s) = 0 THEN <<>>
    ELSE IF s[1] = "\"" THEN StripQuotes(Tail(s))
    ELSE <<s[1]>> \o StripQuotes(Tail(s))

RECURSIVE BeforeFirstDot(_)
BeforeFirstDot(s) ==
    IF Len(s) = 0 \/ s[1] = "." THEN <<>>
    ELSE <<s[1]>> \o BeforeFirstDot(Tail(s))

hashOfEtag(etagHeader) ==
    OrElse(BeforeFirstDot(StripQuotes(OrElse(etagHeader, <<>>))), Undefined)

\* The validator header the destination may send with a HEAD response
Etags == { Null, <<"\"", "9a0364b9", "\"">>, <<"\"", "9a0364b9", ".", "gz", "\"">> }

\* What a fetch() call came to: threw (a transport error, the promise
\* rejected) or a response with its status, ok flag (status 200..299), body
\* stream, and content-type and etag headers (Null when absent)
Answer(threw, status, body, ctype, etag) ==
    [threw |-> threw, ok |-> (~threw /\ status >= 200 /\ status <= 299), status |-> status,
     body |-> body, ctype |-> ctype, etag |-> etag]

Threw == Answer(TRUE, 0, FALSE, Null, Null)

NoAnswer == Answer(FALSE, 0, FALSE, Null, Null)

\* A network call as the run issued it, with what it came to
Call(kind, method, url, auth, ctype, answer) ==
    [kind |-> kind, method |-> method, url |-> url, auth |-> auth, ctype |-> ctype,
     answer |-> answer]

NoAuth == [ qSignAlgorithm |-> "none", qAk |-> <<>>, qSignTime |-> <<>>, qKeyTime |-> <<>>,
            qHeaderList |-> <<>>, qUrlParamList |-> <<>>, qSignature |-> <<"none">> ]

\* What the destination may answer to the HEAD of an object: 200 when it
\* holds the object, 404 when it does not, 503 at any time; or the call throws
ProbeAnswers(held) ==
    {Threw, Answer(FALSE, 503, FALSE, Null, Null)} \cup
    (IF held THEN {Answer(FALSE, 200, FALSE, Null, etag) : etag \in Etags}
             ELSE {Answer(FALSE, 404, FALSE, Null, Null)})

\* What the source CDN may answer to the GET
SourceAnswers ==
    { Threw,
      Answer(FALSE, 200, TRUE, <<"text", "/", "plain">>, Null),
      Answer(FALSE, 200, TRUE, Null, Null),
      Answer(FALSE, 204, FALSE, Null, Null),
      Answer(FALSE, 404, TRUE, <<"text", "/", "plain">>, Null) }

\* What the bucket may answer to the PUT; body: whether the error text is
\* non-empty
UploadAnswers ==
    { Threw,
      Answer(FALSE, 200, FALSE, Null, Null),
      Answer(FALSE, 403, TRUE, Null, Null),
      Answer(FALSE, 403, FALSE, Null, Null) }

\* The probe check that takes everything but a 404 for the object
probeMirrored_Not404(existResp) == existResp.status # 404

\* l.149: if (existResp.ok)
probeMirrored(existResp) == existResp.ok

\* The fetch check with the body test forgotten
fetchFailed_NoBodyCheck(src) == ~src.ok

\* l.164: if (!source.ok || !source.body)
fetchFailed(src) == ~src.ok \/ ~src.body

\* The upload check inverted
uploadFailed_Inverted(putResp) == putResp.ok

\* l.203: if (!putResp.ok)
uploadFailed(putResp) == ~putResp.ok

\* ll.96-142: method dispatch, configuration check, body parsing and
\* parameter check.  Nothing here touches the network.
SyncReceive(r) ==
    /\ pc[r] = "idle"
    /\ \E method \in Methods, body \in Bodies :
         LET reply ==
               IF method = "OPTIONS" THEN Reply("preflight", 204, 0)
               ELSE IF method # "POST" THEN Reply("method", 405, 405)
               ELSE IF ConfigMissing(env) THEN Reply("config", 500, 500)
               ELSE IF body.json = "invalid" THEN Reply("json", 400, 400)
               ELSE IF ParamsMissing(body) THEN Reply("params", 400, 400)
               ELSE NoResult
         IN /\ req' = [req EXCEPT ![r] = Request(method, body)]
            /\ IF reply # NoResult
               THEN /\ pc' = [pc EXCEPT ![r] = "done"]
                    /\ result' = [result EXCEPT ![r] = reply]
               ELSE /\ pc' = [pc EXCEPT ![r] = "probe"]
                    /\ UNCHANGED result
    /\ follows' = [follows EXCEPT ![r] =
                     {q \in Runs : pc[q] = "done" /\ result[q].outcome = "uploaded"}]
    /\ UNCHANGED <<env, store, calls, source, numVars, signVars>>

\* ll.144-159: HEAD of the object's URL on the own CDN, inside try/catch
SyncProbe(r) ==
    /\ pc[r] = "probe"
    /\ LET selfFileURL == selfCdnURL(env, coordOf(r).name, coordOf(r).version, coordOf(r).key)
           held == ObjectKeyOfURL(selfFileURL) \in store
       IN \E existResp \in ProbeAnswers(held) :
            /\ calls' = [calls EXCEPT ![r] =
                            Append(@, Call("probe", "HEAD", selfFileURL, NoAuth, Null, existResp))]
            /\ IF ~existResp.threw /\ probeMirrored(existResp)
               THEN /\ result' = [result EXCEPT ![r] =
                            [Reply("already-mirrored", 200, 200) EXCEPT
                                !.hash = hashOfEtag(existResp.etag),
                                !.key = uploadKeyOf(coordOf(r))]]
                    /\ pc' = [pc EXCEPT ![r] = "done"]
               ELSE /\ pc' = [pc EXCEPT ![r] = "fetch"]
                    /\ UNCHANGED result
    /\ UNCHANGED <<env, store, req, source, follows, numVars, signVars>>

\* ll.161-169: GET from cdnjs.  The call is awaited outside any try block:
\* when it throws, the handler's promise rejects.
SyncFetch(r) ==
    /\ pc[r] = "fetch"
    /\ \E src \in SourceAnswers :
         /\ calls' = [calls EXCEPT ![r] =
                         Append(@, Call("fetch", "GET", sourceUrlOf(coordOf(r)), NoAuth, Null, src))]
         /\ IF src.threw
            THEN /\ pc' = [pc EXCEPT ![r] = "done"]
                 /\ result' = [result EXCEPT ![r] = Uncaught]
                 /\ UNCHANGED source
            ELSE IF fetchFailed(src)
            THEN /\ pc' = [pc EXCEPT ![r] = "done"]
                 /\ result' = [result EXCEPT ![r] =
                        [Reply("fetch-failed", 500, 500) EXCEPT !.detail = Str(ToString(src.status))]]
                 /\ UNCHANGED source
            ELSE /\ pc' = [pc EXCEPT ![r] = "upload"]
                 /\ source' = [source EXCEPT ![r] = src]
                 /\ UNCHANGED result
    /\ UNCHANGED <<env, store, req, follows, numVars, signVars>>

\* ll.171-214: sign and PUT to the bucket.  The call is awaited outside any
\* try block.  A PUT the bucket answers with success leaves the object in
\* the bucket under the request's path.
SyncUpload(r) ==
    /\ pc[r] = "upload"
    /\ \E now \in Times, putResp \in UploadAnswers :
         LET uploadKey == uploadKeyOf(coordOf(r))
             cosHost == cosHostOf(env)
             pathname == <<"/">> \o uploadKey
             contentType == OrElse(source[r].ctype, guessContentTypeByKey(coordOf(r).key))
             headersToSign == << <<Str("Host"), cosHost>>, <<Str("Content-Type"), contentType>> >>
             authorization ==
                 buildCOSAuth([secretId |-> env.COS_SECRET_ID, secretKey |-> env.COS_SECRET_KEY,
                               method |-> Str("PUT"), host |-> cosHost, pathname |-> pathname,
                               headers |-> headersToSign, params |-> <<>>], now)
             putURL == <<"https://">> \o cosHost \o pathname
         IN /\ calls' = [calls EXCEPT ![r] =
                            Append(@, Call("upload", "PUT", putURL, authorization, contentType, putResp))]
            /\ store' = IF putResp.ok THEN store \cup {ObjectKeyOfURL(putURL)} ELSE store
            /\ result' = [result EXCEPT ![r] =
                  IF putResp.threw THEN Uncaught
                  ELSE IF uploadFailed(putResp)
                  THEN [Reply("upload-failed", 500, 500) EXCEPT
                           !.detail = IF putResp.body THEN Str("AccessDenied") ELSE Str("Forbidden")]
                  ELSE [Reply("uploaded", 200, 200) EXCEPT !.key = uploadKey]]
    /\ pc' = [pc EXCEPT ![r] = "done"]
    /\ UNCHANGED <<env, req, source, follows, numVars, signVars>>

-----------------------------------------------------------------------------
(* num.js: onRequest *)

\* SHA-256 and HMAC-SHA256, free constructors like the SHA-1 ones
sha256Hex(input) == <<"sha256", input>>

hmacSha256(key, message) == <<"hmac-sha256", key, message>>

hmacSha256Hex(key, message) == <<"hex", hmacSha256(key, message)>>

getSignature(secretKey, date, service, stringToSign) ==
    LET kDate == hmacSha256(<<"TC3">> \o secretKey, date)
        kService == hmacSha256(kDate, service)
        kSigning == hmacSha256(kService, Str("tc3_request"))
    IN hmacSha256Hex(kSigning, stringToSign)

\* A clock reading (new Date()): whole seconds since the epoch and the
\* milliseconds within the second
Clock(sec, ms) == [sec |-> sec, ms |-> ms]

\* 30 * 24 * 60 * 60 * 1000 milliseconds, in seconds
ThirtyDays == 30 * 24 * 60 * 60

\* date.toISOString().replace(/\.\d{3}Z$/, 'Z'): the ISO rendering of the
\* reading's whole second, the milliseconds dropped
toIso8601WithoutMilliseconds(date) == <<"iso", ToString(date.sec), "Z">>

\* new Date(timestamp * 1000).toISOString().slice(0, 10): the reading's UTC day
SecondsPerDay == 86400

isoDate(timestamp) == <<"day", ToString(timestamp \div SecondsPerDay)>>

\* The names every object inherits from Object.prototype (those the model's
\* selectors can hit)
ObjectPrototypeNames == { Str("constructor"), Str("toString"), Str("hasOwnProperty"), Str("__proto__") }

\* metricMap[act]: property lookup on the object literal
\*   { request: 'l7Flow_request_url', flow: 'l7Flow_outFlux_url' }
\* with the key String(act): an own property, else one inherited from
\* Object.prototype (a function, or for __proto__ the prototype object
\* itself), else undefined
metricMapGet(act) ==
    IF act = Str("request") THEN Str("l7Flow_request_url")
    ELSE IF act = Str("flow") THEN Str("l7Flow_outFlux_url")
    ELSE IF act = Str("__proto__") THEN Str("<Object.prototype>")
    ELSE IF act \in ObjectPrototypeNames THEN Str("<function>")
    ELSE Undefined

\* const metricName = metricMap[act] || 'l7Flow_request_url'
metricNameOf(act) == OrElse(metricMapGet(act), Str("l7Flow_request_url"))

\* JSON.stringify of a property value: a string is written out, a function
\* makes JSON.stringify leave the property out, Object.prototype is written {}
jsonProperty(v) ==
    IF v = Str("<function>") THEN Undefined
    ELSE IF v = Str("<Object.prototype>") THEN Str("{}")
    ELSE v

MetricsLimit == 101

\* JSON.stringify(payload)
payloadJsonOf(act, endDate) ==
    [ StartTime |-> toIso8601WithoutMilliseconds(Clock(endDate.sec - ThirtyDays, endDate.ms)),
      EndTime |-> toIso8601WithoutMilliseconds(endDate),
      MetricName |-> jsonProperty(metricNameOf(act)),
      Limit |-> MetricsLimit,
      Filters |-> << <<"domain", "equals", "cdnjs.znnu.com">>,
                     <<"statusCode", "equals", "200">>,
                     <<"url", "notInclude", "/pages">> >> ]

metricsHost == Str("teo.tencentcloudapi.com")

\* ll.103-114
stringToSignOf(payloadJson, timestamp) ==
    LET canonicalHeaders == <<"content-type:application/json; charset=utf-8", "\n", "host:">>
                              \o metricsHost \o <<"\n">>
        signedHeaders == <<"content-type;host">>
        hashedRequestPayload == sha256Hex(payloadJson)
        canonicalRequest == <<"POST", "\n", "/", "\n", "", "\n">> \o canonicalHeaders \o <<"\n">>
                              \o signedHeaders \o <<"\n", hashedRequestPayload>>
        credentialScope == isoDate(timestamp) \o <<"/", "teo", "/", "tc3_request">>
    IN <<"TC3-HMAC-SHA256", "\n", ToString(timestamp), "\n">> \o credentialScope
         \o <<"\n", sha256Hex(canonicalRequest)>>

\* l.129
authorizationOf(secretId, secretKey, payloadJson, timestamp) ==
    [ algorithm |-> "TC3-HMAC-SHA256",
      credential |-> secretId \o <<"/">> \o isoDate(timestamp) \o <<"/", "teo", "/", "tc3_request">>,
      signedHeaders |-> <<"content-type;host">>,
      signature |-> getSignature(secretKey, isoDate(timestamp), Str("teo"),
                                 stringToSignOf(payloadJson, timestamp)) ]

\* The metric selectors a request may carry: url.searchParams.get('act') is
\* null when the parameter is absent
Acts == { Null, <<>>, Str("request"), Str("flow"), Str("bandwidth"), Str("REQUEST"),
          Str("constructor"), Str("__proto__") }

NumMethods == {"GET", "POST", "OPTIONS"}

NumClocks == { Clock(1700000000, 0), Clock(1700000000, 999) }

\* A row of Response.Data: whether it has a TypeKey property, and its
\* DetailData (the Key of each entry; Null when it is not an array)
Row(typeKey, detail) == [TypeKey |-> typeKey, DetailData |-> detail]

\* What the metrics API may answer: the fetch throws; or a response with ok
\* flag whose body does not parse as JSON (resp.json() throws), is the JSON
\* null, or is an object with or without Response, Response.Error and
\* Response.Data
MetricsAnswer(threw, ok, json, error, data) ==
    [threw |-> threw, ok |-> ok, json |-> json, error |-> error, data |-> data]

SampleData == << Row(TRUE, <<Str("/"), Str("/ajax/libs/vue.js")>>), Row(FALSE, Null) >>

MetricsAnswers ==
    { MetricsAnswer(TRUE, FALSE, "none", Undefined, Null) } \cup
    { MetricsAnswer(FALSE, ok, "unparsable", Undefined, Null) : ok \in BOOLEAN } \cup
    { MetricsAnswer(FALSE, ok, "null", Undefined, Null) : ok \in BOOLEAN } \cup
    { MetricsAnswer(FALSE, ok, "object", Undefined, Null) : ok \in BOOLEAN } \cup
    { MetricsAnswer(FALSE, ok, "response", error, data) :
        ok \in BOOLEAN, error \in {Undefined, Str("AuthFailure.SignatureFailure")},
        data \in {Null, SampleData} }

\* json?.Response?.Error
responseError(ans) == IF ans.json = "response" THEN ans.error ELSE Undefined

\* The failure check that trusts the HTTP status alone
apiFailed_StatusOnly(ans) == ~ans.ok

\* l.148: if (!resp.ok || json?.Response?.Error)
apiFailed(ans) == ~ans.ok \/ ~Falsy(responseError(ans))

\* ll.160-164: delete TypeKey; drop the DetailData entries whose Key is "/"
RECURSIVE dropRootKey(_)
dropRootKey(detail) ==
    IF Len(detail) = 0 THEN <<>>
    ELSE IF detail[1] = Str("/") THEN dropRootKey(Tail(detail))
    ELSE <<detail[1]>> \o dropRootKey(Tail(detail))

postProcess(data) ==
    IF data = Null THEN Null
    ELSE [i \in 1..Len(data) |->
            Row(FALSE, IF data[i].DetailData = Null THEN Null
                       ELSE dropRootKey(data[i].DetailData))]

NumReply(outcome, status, detail, data) ==
    [outcome |-> outcome, status |-> status, detail |-> detail, data |-> data]

NoNumReply == NumReply("none", 0, Undefined, Null)

NoNumRequest == [method |-> "none", act |-> Null, endDate |-> Clock(0, 0), now |-> Clock(0, 0)]

NoPayload == payloadJsonOf(Null, Clock(ThirtyDays, 0))

NoTC3Auth == [algorithm |-> "none", credential |-> <<>>, signedHeaders |-> <<>>,
              signature |-> <<"none">>]

\* ll.52-128: from the request to the metrics call being issued.  nlog lists
\* what the handler computed, in order.
NumReceive ==
    /\ npc = "idle"
    /\ \E method \in NumMethods, act \in Acts, endDate \in NumClocks, now \in NumClocks :
         /\ now.ms >= endDate.ms
         /\ nreq' = [method |-> method, act |-> act, endDate |-> endDate, now |-> now]
         /\ IF method = "OPTIONS"
            THEN /\ nresult' = NumReply("preflight", 204, Undefined, Null)
                 /\ npc' = "done"
                 /\ UNCHANGED <<nlog, npayload, nauth>>
            ELSE LET payloadJson == payloadJsonOf(act, endDate)
                     secretId == env.TENCENTCLOUD_SECRET_ID
                     secretKey == env.TENCENTCLOUD_SECRET_KEY
                 IN /\ npayload' = payloadJson
                    /\ IF Falsy(secretId) \/ Falsy(secretKey)
                       THEN /\ nlog' = <<"sha256(payload)", "sha256(canonicalRequest)">>
                            /\ nresult' = NumReply("credentials", 500, Undefined, Null)
                            /\ npc' = "done"
                            /\ UNCHANGED nauth
                       ELSE /\ nlog' = <<"sha256(payload)", "sha256(canonicalRequest)",
                                         "getSignature", "fetch">>
                            /\ nauth' = authorizationOf(secretId, secretKey, payloadJson, now.sec)
                            /\ npc' = "call"
                            /\ UNCHANGED nresult
    /\ UNCHANGED <<env, syncVars, signVars, nanswer>>

NoMetricsAnswer == MetricsAnswer(FALSE, FALSE, "none", Undefined, Null)

\* ll.131-182: the metrics call returns or throws
NumRespond ==
    /\ npc = "call"
    /\ \E ans \in MetricsAnswers :
         /\ nanswer' = ans
         /\ nresult' =
              IF ans.threw \/ ans.json = "unparsable"
              THEN NumReply("exception", 500, Str("<err.message>"), Null)
              ELSE IF apiFailed(ans)
              THEN NumReply("api-failed", 500, OrElse(responseError(ans), Str("<json>")), Null)
              ELSE NumReply("ok", 200, Undefined,
                            IF ans.json = "response" THEN postProcess(ans.data) ELSE Null)
    /\ npc' = "done"
    /\ UNCHANGED <<env, syncVars, signVars, nreq, nlog, npayload, nauth>>

-----------------------------------------------------------------------------
(* The signer on arbitrary inputs: buildCOSAuth applied to two inputs, the
   second the first with one change *)

\* The largest header object the signer is given at the start
MaxHeaders == 2

HeaderNames ==
    { <<"H", "o", "s", "t">>, <<"h", "o", "s", "t">>,
      <<"C", "o", "n", "t", "e", "n", "t", "-", "T", "y", "p", "e">>,
      <<"X", "-", "A">> }

HeaderValues == { <<"a">>, <<"a", " ">>, <<"/">>, Null }

HasName(h, k) == \E i \in 1..Len(h) : h[i][1] = k

\* The header objects of at most n properties: sequences of <<name, value>> in
\* Object.entries order, the names distinct
RECURSIVE HeaderObjects(_)
HeaderObjects(n) ==
    IF n = 0 THEN { <<>> }
    ELSE LET shorter == HeaderObjects(n - 1)
             longer == { Append(h, <<k, v>>) :
                           h \in {g \in shorter : Len(g) = n - 1},
                           k \in HeaderNames, v \in HeaderValues }
         IN shorter \cup {h \in longer : ~HasName(SubSeq(h, 1, n - 1), h[n][1])}


SignerInput(headers, now, method, pathname, secretKey) ==
    [ secretId |-> Str("AKIDexample"), secretKey |-> secretKey, method |-> method,
      host |-> Str("bucket.cos.region.myqcloud.com"), pathname |-> pathname,
      headers |-> headers, params |-> <<>>, now |-> now ]

NoInput == SignerInput(<<>>, 0, <<>>, <<>>, <<>>)

\* obj[name] = value: an existing property keeps its place
SetHeader(name, value) ==
    /\ spc = "input"
    /\ in2' = [in2 EXCEPT !.headers = MapSet(@, name, value)]
    /\ in2' # in2
    /\ spc' = "edited"
    /\ UNCHANGED <<env, syncVars, numVars, in1, out1, out2>>

\* delete obj[name]
DeleteHeader(name) ==
    /\ spc = "input"
    /\ HasName(in2.headers, name)
    /\ in2' = [in2 EXCEPT !.headers = SelectSeq(@, LAMBDA e : e[1] # name)]
    /\ spc' = "edited"
    /\ UNCHANGED <<env, syncVars, numVars, in1, out1, out2>>

Orderings(n) ==
    { p \in [1..n -> 1..n] : \A i, j \in 1..n : p[i] = p[j] => i = j }

\* The same properties, created in another order
ReorderHeaders ==
    /\ spc = "input"
    /\ \E p \in Orderings(Len(in2.headers)) :
         /\ in2' = [in2 EXCEPT !.headers = [i \in 1..Len(@) |-> @[p[i]]]]
         /\ in2' # in2
    /\ spc' = "edited"
    /\ UNCHANGED <<env, syncVars, numVars, in1, out1, out2>>

\* Another clock reading, method, path or secret
ChangeRequest ==
    /\ spc = "input"
    /\ \/ \E t \in Times : in2' = [in2 EXCEPT !.now = t]
       \/ in2' = [in2 EXCEPT !.method = Str("HEAD")]
       \/ in2' = [in2 EXCEPT !.pathname = <<"/", "other">>]
       \/ in2' = [in2 EXCEPT !.secretKey = Str("other-secret")]
    /\ in2' # in2
    /\ spc' = "edited"
    /\ UNCHANGED <<env, syncVars, numVars, in1, out1, out2>>

\* Both inputs are signed
Sign ==
    /\ spc \in {"input", "edited"}
    /\ out1' = buildCOSAuth(in1, in1.now)
    /\ out2' = buildCOSAuth(in2, in2.now)
    /\ spc' = "signed"
    /\ UNCHANGED <<env, syncVars, numVars, in1, in2>>

-----------------------------------------------------------------------------
(* The deployment *)

BaseEnv ==
    [ COS_BUCKET_NAME |-> Str("libs-1250000000"),
      COS_REGION |-> Str("ap-guangzhou"),
      COS_SECRET_ID |-> Str("AKIDexample"),
      COS_SECRET_KEY |-> Str("secret"),
      COS_CUSTOM_DOMAIN |-> Str("https://cdn.example.com"),
      COS_LIB_FOLDER |-> Undefined,
      TENCENTCLOUD_SECRET_ID |-> Str("AKIDmetrics"),
      TENCENTCLOUD_SECRET_KEY |-> Str("metrics-secret") ]

Folders == { Undefined, Str("libs"), <<"/", "libs", "/">> }

Domains == { Str("https://cdn.example.com"), <<"https://cdn.example.com", "/">> }

Missing == { Undefined, <<>> }

ValidEnvs ==
    { [BaseEnv EXCEPT !.COS_LIB_FOLDER = f, !.COS_CUSTOM_DOMAIN = d] : f \in Folders, d \in Domains }

BrokenEnvs ==
    { [BaseEnv EXCEPT !.COS_BUCKET_NAME = m] : m \in Missing } \cup
    { [BaseEnv EXCEPT !.COS_REGION = m] : m \in Missing } \cup
    { [BaseEnv EXCEPT !.COS_SECRET_ID = m] : m \in Missing } \cup
    { [BaseEnv EXCEPT !.COS_SECRET_KEY = m] : m \in Missing } \cup
    { [BaseEnv EXCEPT !.COS_CUSTOM_DOMAIN = m] : m \in Missing }

SyncInit ==
    /\ store = {}
    /\ pc = [r \in Runs |-> "idle"]
    /\ req = [r \in Runs |-> NoRequest]
    /\ calls = [r \in Runs |-> <<>>]
    /\ source = [r \in Runs |-> NoAnswer]
    /\ result = [r \in Runs |-> NoResult]
    /\ follows = [r \in Runs |-> {}]

NumInit ==
    /\ npc = "idle"
    /\ nreq = NoNumRequest
    /\ nlog = <<>>
    /\ npayload = NoPayload
    /\ nauth = NoTC3Auth
    /\ nanswer = NoMetricsAnswer
    /\ nresult = NoNumReply

SignIdle ==
    /\ spc = "idle"
    /\ in1 = NoInput
    /\ in2 = NoInput
    /\ out1 = NoAuth
    /\ out2 = NoAuth

\* The synchronization handler, two requests in flight
Init ==
    /\ env \in ValidEnvs \cup BrokenEnvs
    /\ SyncInit
    /\ NumInit
    /\ SignIdle

Next ==
    \E r \in Runs :
        \/ SyncReceive(r)
        \/ SyncProbe(r)
        \/ SyncFetch(r)
        \/ SyncUpload(r)

Spec == Init /\ [][Next]_vars

\* Both handlers, one request each
CredentialEnvs(e) ==
    { [e EXCEPT !.TENCENTCLOUD_SECRET_ID = i, !.TENCENTCLOUD_SECRET_KEY = k] :
        i \in Missing \cup {e.TENCENTCLOUD_SECRET_ID},
        k \in Missing \cup {e.TENCENTCLOUD_SECRET_KEY} }

ApiInit ==
    /\ env \in UNION { CredentialEnvs(e) : e \in {BaseEnv} \cup BrokenEnvs }
    /\ SyncInit
    /\ NumInit
    /\ SignIdle

ApiNext ==
    \/ SyncReceive(1)
    \/ SyncProbe(1)
    \/ SyncFetch(1)
    \/ SyncUpload(1)
    \/ NumReceive
    \/ NumRespond

ApiSpec == ApiInit /\ [][ApiNext]_vars

\* The signer alone
SignInit ==
    /\ env = BaseEnv
    /\ SyncInit
    /\ NumInit
    /\ spc = "input"
    /\ \E h \in HeaderObjects(MaxHeaders), t \in Times :
         in1 = SignerInput(h, t, Str("PUT"), <<"/", "jquery", "/", "3.6.0", "/", "jquery.min", ".js">>,
                           Str("secret"))
    /\ in2 = in1
    /\ out1 = NoAuth
    /\ out2 = NoAuth

SignNext ==
    \/ \E k \in HeaderNames, v \in HeaderValues : SetHeader(k, v)
    \/ \E k \in HeaderNames : DeleteHeader(k)
    \/ ReorderHeaders
    \/ ChangeRequest
    \/ Sign

SignSpec == SignInit /\ [][SignNext]_vars

-----------------------------------------------------------------------------
(* Properties of the synchronization handler (Spec) *)

\* Run r has had its probe answered by the destination itself (200 or 404)
ProbeAnsweredByStore(r) ==
    /\ Len(calls[r]) >= 1
    /\ ~calls[r][1].answer.threw
    /\ calls[r][1].answer.status \in {200, 404}

\* C1: a run that begins after a run for the same coordinate has returned
\* "uploaded", and whose probe the destination answers, finds the object,
\* returns already-mirrored and issues no fetch and no upload - whatever the
\* configuration, a library folder included.
C1_SecondRunAlreadyMirrored ==
    \A r \in Runs : \A q \in follows[r] :
        (coordOf(r) = coordOf(q) /\ ProbeAnsweredByStore(r)) =>
            /\ calls[r][1].answer.ok
            /\ pc[r] = "done"
            /\ result[r].outcome = "already-mirrored"
            /\ Len(calls[r]) = 1

\* C2: a run never ends with an uncaught exception: whatever the three
\* network calls come to, the run returns a Response.
C2_EveryFailureTagged ==
    \A r \in Runs : pc[r] = "done" => result[r].outcome # "uncaught"

\* Run r issued all three calls and its PUT was answered with success
FetchedAndUploaded(r) ==
    /\ Len(calls[r]) = 3
    /\ calls[r][2].answer.ok
    /\ calls[r][3].answer.ok

\* C4: when two runs for the same coordinate both fetch and upload with
\* success, in whatever interleaving, both return "uploaded" with the same
\* destination key and the destination holds the object.
C4_BothUploadLastWriteWins ==
    \A r, q \in Runs :
        (r # q /\ coordOf(r) = coordOf(q) /\ FetchedAndUploaded(r) /\ FetchedAndUploaded(q)) =>
            /\ result[r].outcome = "uploaded" /\ result[q].outcome = "uploaded"
            /\ result[r].status = 200 /\ result[q].status = 200
            /\ result[r].key = result[q].key
            /\ result[r].key = uploadKeyOf(coordOf(r))
            /\ uploadKeyOf(coordOf(r)) \in store

\* C4 witness: no library folder; neither run began after the other had
\* finished, both probes were answered 404, both runs uploaded.
C4_Witness ==
    /\ Falsy(env.COS_LIB_FOLDER)
    /\ coordOf(1) = coordOf(2)
    /\ follows[1] = {} /\ follows[2] = {}
    /\ \A r \in Runs :
         /\ FetchedAndUploaded(r)
         /\ calls[r][1].answer.status = 404
         /\ result[r].outcome = "uploaded"

CallOrder == <<"probe", "fetch", "upload">>

\* C10: the calls of a run are a prefix of probe, fetch, upload (so each is
\* issued at most once and in this order); a fetch was issued only after a
\* probe that did not report success, an upload only after a fetch answered
\* with success and a body; after a probe success or a failed fetch the run
\* is done and has issued nothing more.
C10_CallsInOrder ==
    \A r \in Runs :
        /\ Len(calls[r]) <= 3
        /\ \A i \in 1..Len(calls[r]) : calls[r][i].kind = CallOrder[i]
        /\ Len(calls[r]) >= 2 => ~calls[r][1].answer.ok
        /\ Len(calls[r]) >= 3 =>
              /\ ~calls[r][2].answer.threw
              /\ calls[r][2].answer.ok
              /\ calls[r][2].answer.body
        /\ (Len(calls[r]) >= 1 /\ calls[r][1].answer.ok) =>
              (pc[r] = "done" /\ Len(calls[r]) = 1)
        /\ (Len(calls[r]) >= 2 /\ (~calls[r][2].answer.ok \/ ~calls[r][2].answer.body)) =>
              (pc[r] = "done" /\ Len(calls[r]) = 2)

\* C10 witness: one run went through probe, fetch and upload, and the other
\* then stopped at its probe, which reported success
C10_Witness ==
    \E r, q \in Runs :
        /\ Len(calls[r]) = 3 /\ pc[r] = "done"
        /\ Len(calls[q]) = 1 /\ calls[q][1].answer.ok /\ pc[q] = "done"

\* Run r's probe is over and did not report success: it threw or was
\* answered with a status outside 200..299
ProbeUnsuccessful(r) == Len(calls[r]) >= 1 /\ ~calls[r][1].answer.ok

\* Runs r and q got the same answers to the calls they issued after the probe
SameLaterAnswers(r, q) ==
    /\ Len(calls[r]) = Len(calls[q])
    /\ \A i \in 2..Len(calls[r]) : calls[r][i].answer = calls[q][i].answer

\* C11: a run whose probe threw or was answered with a non-success status
\* has not returned at the probe: it is about to issue the source fetch or
\* has issued it as its second call; and a run whose probe threw and a run
\* for the same coordinate whose probe was answered 404 issue the same calls
\* after the probe and, given the same answers to them, stand at the same
\* place with the same source response and the same Response.
C11_ProbeFailureProceeds ==
    /\ \A r \in Runs :
         ProbeUnsuccessful(r) =>
            /\ result[r].outcome # "already-mirrored"
            /\ Len(calls[r]) = 1 => (pc[r] = "fetch" /\ ENABLED SyncFetch(r))
            /\ Len(calls[r]) >= 2 => calls[r][2].kind = "fetch"
    /\ \A r, q \in Runs :
         (/\ ProbeUnsuccessful(r) /\ calls[r][1].answer.threw
          /\ ProbeUnsuccessful(q) /\ calls[q][1].answer.status = 404
          /\ coordOf(r) = coordOf(q)) =>
            /\ \A i \in 2..Len(calls[r]) :
                 (i <= Len(calls[q])
                    /\ \A j \in 2..(i - 1) : calls[r][j].answer = calls[q][j].answer) =>
                    /\ calls[r][i].kind = calls[q][i].kind
                    /\ calls[r][i].method = calls[q][i].method
                    /\ calls[r][i].url = calls[q][i].url
                    /\ calls[r][i].ctype = calls[q][i].ctype
            /\ SameLaterAnswers(r, q) =>
                 /\ pc[r] = pc[q]
                 /\ source[r] = source[q]
                 /\ result[r] = result[q]

\* C11 witness: one run's probe threw, the other's was answered 404, both
\* went on to fetch and upload the same coordinate and returned the same
C11_Witness ==
    \E r, q \in Runs :
        /\ calls[r] # <<>> /\ calls[r][1].answer.threw
        /\ calls[q] # <<>> /\ calls[q][1].answer.status = 404
        /\ coordOf(r) = coordOf(q)
        /\ Len(calls[r]) = 3 /\ SameLaterAnswers(r, q)
        /\ pc[r] = "done" /\ pc[q] = "done"
        /\ result[r].outcome = "uploaded" /\ result[q] = result[r]

-----------------------------------------------------------------------------
(* Properties of the two handlers' validation and of the metrics handler
   (ApiSpec) *)

\* The five configuration values the synchronization needs
RequiredConfig ==
    { env.COS_BUCKET_NAME, env.COS_REGION, env.COS_SECRET_ID, env.COS_SECRET_KEY,
      env.COS_CUSTOM_DOMAIN }

RequiredParams(r) == { req[r].body.name, req[r].body.version, req[r].body.key }

\* C3: a synchronization request (past the method dispatch) with a required
\* configuration value or one of name, version, key missing is answered with
\* an error, and no request that fails validation issues any network call; a
\* metrics request with the secret id or key missing is answered with an
\* error, no signature computed and no call issued.
C3_ValidationBeforeNetwork ==
    /\ \A r \in Runs :
         (pc[r] # "idle" /\ (\/ \E v \in RequiredConfig : Falsy(v)
                             \/ req[r].body.json = "invalid"
                             \/ \E v \in RequiredParams(r) : Falsy(v))) =>
            /\ pc[r] = "done"
            /\ calls[r] = <<>>
            /\ req[r].method = "POST" => result[r].status \in {400, 500}
            /\ req[r].method # "OPTIONS" => result[r].status >= 400
    /\ (npc # "idle" /\ nreq.method # "OPTIONS"
          /\ (Falsy(env.TENCENTCLOUD_SECRET_ID) \/ Falsy(env.TENCENTCLOUD_SECRET_KEY))) =>
            /\ npc = "done"
            /\ nresult.status = 500
            /\ \A i \in 1..Len(nlog) : nlog[i] \notin {"getSignature", "fetch"}
            /\ nauth = NoTC3Auth
            /\ nanswer = NoMetricsAnswer

\* C3 witness: a POST with the custom domain missing and a metrics request
\* with the secret key missing, both answered
C3_Witness ==
    /\ Falsy(env.COS_CUSTOM_DOMAIN)
    /\ pc[1] = "done" /\ req[1].method = "POST" /\ result[1].status = 500
    /\ Falsy(env.TENCENTCLOUD_SECRET_KEY)
    /\ npc = "done" /\ nreq.method = "POST" /\ nresult.status = 500

\* The metrics answer carries a populated Response.Error
HasErrorEnvelope(ans) == ~ans.threw /\ ans.json = "response" /\ ~Falsy(ans.error)

\* C5: a metrics answer with a populated error envelope is returned as a
\* failure (500, the envelope as detail) even when its HTTP status is a
\* success; 200 is returned only for a successful status without envelope.
C5_ErrorEnvelopeIsFailure ==
    /\ (npc = "done" /\ HasErrorEnvelope(nanswer)) =>
            /\ nresult.status = 500
            /\ nresult.outcome = "api-failed"
            /\ nresult.detail = nanswer.error
    /\ nresult.status = 200 => (nanswer.ok /\ ~HasErrorEnvelope(nanswer))

\* C5 witness: HTTP success with an error envelope, answered 500
C5_Witness ==
    /\ npc = "done"
    /\ nanswer.ok
    /\ HasErrorEnvelope(nanswer)
    /\ nresult.status = 500

\* C9: the payload's metric name is the outbound-traffic name for "flow" and
\* the request-count name for "request" and for every other selector.
C9_MetricNameDefaults ==
    (npc # "idle" /\ nreq.method # "OPTIONS") =>
        npayload.MetricName =
            IF nreq.act = Str("flow") THEN Str("l7Flow_outFlux_url")
            ELSE Str("l7Flow_request_url")

-----------------------------------------------------------------------------
(* Properties of the signer (SignSpec) *)

HostName == <<"h", "o", "s", "t">>

ContentTypeName == <<"c", "o", "n", "t", "e", "n", "t", "-", "t", "y", "p", "e">>

IsHostOrContentType(name) == toLowerCase(name) \in {HostName, ContentTypeName}

\* The two inputs agree on secret, method, path and time
SameRequest ==
    /\ in1.secretId = in2.secretId
    /\ in1.secretKey = in2.secretKey
    /\ in1.method = in2.method
    /\ in1.pathname = in2.pathname
    /\ in1.now = in2.now

\* The host and content-type entries of a header object, in its order
SignedPart(h) == SelectSeq(h, LAMBDA e : IsHostOrContentType(e[1]))

\* C6: two inputs that agree on secret, method, path, time and on their host
\* and content-type headers get the same signature and the same
\* q-header-list, whatever their other headers are.
C6_UnsignedHeadersIgnored ==
    (spc = "signed" /\ SameRequest /\ SignedPart(in1.headers) = SignedPart(in2.headers)) =>
        /\ out1.qSignature = out2.qSignature
        /\ out1.qHeaderList = out2.qHeaderList
        /\ out1 = out2

\* C6 witness: the second input has another header, with a value, that the
\* first has not or has with another value
C6_Witness ==
    /\ spc = "signed" /\ SameRequest
    /\ SignedPart(in1.headers) = SignedPart(in2.headers)
    /\ SignedPart(in1.headers) # <<>>
    /\ \E i \in 1..Len(in2.headers) :
         /\ ~IsHostOrContentType(in2.headers[i][1])
         /\ in2.headers[i][2] # Null
         /\ \A j \in 1..Len(in1.headers) : in1.headers[j] # in2.headers[i]

\* The two header objects differ in the value of entry i alone, a host or
\* content-type header whose value is a string in both and which no other
\* entry of the object names
SignedValueChangedAt(i) ==
    /\ Len(in1.headers) = Len(in2.headers)
    /\ i \in 1..Len(in1.headers)
    /\ \A j \in 1..Len(in1.headers) : j # i => in1.headers[j] = in2.headers[j]
    /\ in1.headers[i][1] = in2.headers[i][1]
    /\ in1.headers[i][2] # in2.headers[i][2]
    /\ in1.headers[i][2] \notin {Null, Undefined}
    /\ in2.headers[i][2] \notin {Null, Undefined}
    /\ IsHostOrContentType(in1.headers[i][1])
    /\ \A j \in 1..Len(in1.headers) :
         j # i => toLowerCase(in1.headers[j][1]) # toLowerCase(in1.headers[i][1])

\* C7 as stated: identical inputs get identical authorizations, and changing
\* the value of a signed header changes the signature.
C7_SignedValueChangesSignature ==
    spc = "signed" =>
        /\ in1 = in2 => out1 = out2
        /\ \A i \in 1..Len(in1.headers) :
             (SameRequest /\ SignedValueChangedAt(i)) => out1.qSignature # out2.qSignature

Absent == <<"<absent>">>

\* The value a header object gives the signed name lname: the trimmed value
\* of its last entry that has this name in lower case and a value other than
\* null and undefined
RECURSIVE EffectiveValue(_, _)
EffectiveValue(h, lname) ==
    IF Len(h) = 0 THEN Absent
    ELSE LET e == h[Len(h)]
         IN IF toLowerCase(e[1]) = lname /\ e[2] \notin {Null, Undefined}
            THEN trim(e[2])
            ELSE EffectiveValue(SubSeq(h, 1, Len(h) - 1), lname)

SameEffectiveHeaders ==
    \A lname \in {HostName, ContentTypeName} :
        EffectiveValue(in1.headers, lname) = EffectiveValue(in2.headers, lname)

\* C7 amended: identical inputs get identical authorizations, and between
\* inputs that agree on secret, method, path and time the signature changes
\* exactly when the effective value of host or content-type changes.
C7_EffectiveValueChangesSignature ==
    spc = "signed" =>
        /\ in1 = in2 => out1 = out2
        /\ SameRequest => ((out1.qSignature = out2.qSignature) <=> SameEffectiveHeaders)

\* C7 witness: a signed header's value changed otherwise than by white
\* space, and the signature with it
C7_Witness ==
    /\ spc = "signed" /\ SameRequest
    /\ \E i \in 1..Len(in1.headers) :
         /\ SignedValueChangedAt(i)
         /\ trim(in1.headers[i][2]) # trim(in2.headers[i][2])
    /\ out1.qSignature # out2.qSignature

\* The second header object holds the entries of the first in another order
IsReordering(h1, h2) ==
    /\ Len(h1) = Len(h2)
    /\ h1 # h2
    /\ {h1[i] : i \in 1..Len(h1)} = {h2[i] : i \in 1..Len(h2)}

SortedHeaderLists ==
    { <<>>, HostName, ContentTypeName, ContentTypeName \o <<";">> \o HostName }

\* C8: the entries of the header object in another order give the same
\* signed-header list and the same authorization, and the signed-header list
\* is the sorted sequence of the signed keys.
C8_OrderIndependent ==
    spc = "signed" =>
        /\ out1.qHeaderList \in SortedHeaderLists
        /\ (SameRequest /\ IsReordering(in1.headers, in2.headers)) =>
              /\ out1.qHeaderList = out2.qHeaderList
              /\ out1 = out2

====
